---- MODULE Spec2Model ----
(***************************************************************************)
(* A model of i_xero2.XeroInterface (src/i_xero2/i_xero.py): the OAuth2    *)
(* token manager (set_client, the token getter and saver, the 'xero_token' *)
(* collection) and the resource adapter (read_*, update_*, delete_*,       *)
(* mark_*_deleted).  The vendor SDK, the identity server and the document  *)
(* store are the environment: each of their calls is a nondeterministic    *)
(* choice over the outcomes the adapter's code has to deal with.           *)
(***************************************************************************)
EXTENDS Integers, Sequences, FiniteSets, TLC

VARIABLES
    xero_token,     \* the 'xero_token' collection of the store: a set of documents
    now,            \* the clock the access-token validity check reads
    issued,         \* how many tokens the identity server has minted
    pc,             \* per adapter object: where its constructor stands
    client,         \* per adapter object: self.client
    oauth2_token,   \* per adapter object: self.client.configuration.oauth2_token
    token_getter,   \* per adapter object: the getter registered with the client
    token_saver,    \* per adapter object: the saver registered with the client
    loaded,         \* per adapter object: what get_token() returned in set_client
    raised,         \* per adapter object: the exception the constructor raised
    notices,        \* per adapter object: calls of notify_to_reauthorize
    instances,      \* XeroInterface.instances, the class-level registry
    tenant_id,      \* per adapter object: self.tenant_id
    XERO_TENANT_ID, \* os.environ['XERO_TENANT_ID'] of the process
    last,           \* the call made by the last step: its name, its object, and
                    \* the token passed to it (a saver) or returned by it (a getter)
    kind,           \* the resource type the adapter's calls are made on
    db,             \* the tenant's entities of that type at the vendor: id -> fields
    ret             \* the last adapter call: its arguments, its vendor calls, its outcome

tokenVars == <<xero_token, now, issued, pc, client, oauth2_token, token_getter,
               token_saver, loaded, raised, notices, instances, tenant_id,
               XERO_TENANT_ID, last>>

resVars == <<kind, db, ret>>

vars == <<xero_token, now, issued, pc, client, oauth2_token, token_getter,
          token_saver, loaded, raised, notices, instances, tenant_id,
          XERO_TENANT_ID, last, kind, db, ret>>

----------------------------------------------------------------------------
(* Bounds *)

\* The clock runs from 0 to MaxNow.
MaxNow == 2
\* The identity server mints at most MaxIssued tokens.
MaxIssued == 2

(* The adapter objects constructed in one process (or in two processes that
   share the store). *)
Inst == {"A", "B"}

\* The adapter object the resource calls are made on.
Adapter == "A"

\* The values XERO_TENANT_ID takes in the environment of the process.
Tenants == {"T1", "T2"}

\* The environment decides the outcome of the first MaxFaultedCalls vendor calls
\* of an adapter call; the later ones go through.
MaxFaultedCalls == 2

\* Seconds (clock units) a freshly minted access token stays valid.
TokenLifetime == 1

----------------------------------------------------------------------------
(* Token values.  A Python token is None, an empty dict, or a dict with
   access_token, refresh_token and expires_at.  One record shape carries the
   three so that TLC can compare any two of them. *)

None == [type |-> "None", access_token |-> 0, refresh_token |-> 0, expires_at |-> 0]

EmptyDict == [type |-> "dict0", access_token |-> 0, refresh_token |-> 0, expires_at |-> 0]

Token(a, r, e) == [type |-> "dict", access_token |-> a, refresh_token |-> r, expires_at |-> e]

\* Python truthiness of a token value: "if token:".
Truthy(token) == token.type = "dict"

\* The token the identity server mints as its n-th, at time t.
Minted(n, t) == Token(n, n, t + TokenLifetime)

----------------------------------------------------------------------------
(* The document store: a collection is a set of documents, a document is its
   _id and the rest of its fields (body); _id is unique in a collection. *)

Doc(id, body) == [_id |-> id, body |-> body]

Matching(coll, id) == {d \in coll : d._id = id}

\* collection.find_one(filter={'_id': id}) followed by "if token: token.pop('_id')"
find_one_pop_id(coll, id) ==
    IF Matching(coll, id) = {} THEN None
    ELSE (CHOOSE d \in Matching(coll, id) : TRUE).body

\* collection.replace_one(filter={'_id': id}, replacement=body, upsert=upsert)
replace_one(coll, id, body, upsert) ==
    IF Matching(coll, id) # {}
    THEN (coll \ {CHOOSE d \in Matching(coll, id) : TRUE}) \cup {Doc(id, body)}
    ELSE IF upsert THEN coll \cup {Doc(id, body)} ELSE coll

\* collection.delete_one(filter={'_id': id})
delete_one(coll, id) ==
    IF Matching(coll, id) # {}
    THEN coll \ {CHOOSE d \in Matching(coll, id) : TRUE}
    ELSE coll

----------------------------------------------------------------------------
(* XeroInterface: token persistence *)

get_token(coll) == find_one_pop_id(coll, "token")

get_oauth2_token(coll) == find_one_pop_id(coll, "token")

store_oauth2_token_no_delete(coll, token) ==
    IF Truthy(token) THEN replace_one(coll, "token", token, TRUE) ELSE coll

store_oauth2_token_merges(coll, token) ==
    IF ~Truthy(token) THEN delete_one(coll, "token")
    ELSE IF Matching(coll, "token") = {} THEN replace_one(coll, "token", token, TRUE)
    ELSE replace_one(coll, "token",
            [find_one_pop_id(coll, "token") EXCEPT !.access_token = token.access_token],
            TRUE)

store_oauth2_token(coll, token) ==
    IF Truthy(token) THEN replace_one(coll, "token", token, TRUE)
    ELSE delete_one(coll, "token")

\* OAuth2Token.is_access_token_valid() of the vendor SDK, as set_client uses it:
\* the access token is there and has not expired.
is_access_token_valid(token, t) == Truthy(token) /\ token.expires_at > t


\* What line 73, token["expires_at"], raises: None is not subscriptable, and an
\* empty dict has no such key.
expires_at_lookup(token) ==
    IF token = None THEN "TypeError"
    ELSE IF token = EmptyDict THEN "KeyError"
    ELSE "ok"

Call(op, i, token) == [op |-> op, by |-> i, token |-> token]

\* The saver the client holds, invoked with a token.  store_xero_oauth2_token
\* re-registers store_oauth2_token as the client's saver and calls it.
store_xero_oauth2_token(coll, token) == store_oauth2_token(coll, token)

invoke_token_saver(i, coll, token) ==
    IF token_saver[i] = "store_xero_oauth2_token"
    THEN store_xero_oauth2_token(coll, token)
    ELSE store_oauth2_token(coll, token)

\* The getter the client holds, invoked.  obtain_xero_oauth2_token re-registers
\* get_oauth2_token as the client's getter and calls it.
obtain_xero_oauth2_token(coll) == get_oauth2_token(coll)

invoke_token_getter_cached(i, coll) == oauth2_token[i]

invoke_token_getter(i, coll) ==
    IF token_getter[i] = "obtain_xero_oauth2_token"
    THEN obtain_xero_oauth2_token(coll)
    ELSE get_oauth2_token(coll)

----------------------------------------------------------------------------
(* XeroInterface.__init__ and set_client.  The constructor is one step up to
   the identity-server call of refresh_access_token, and one step from that
   call's outcome to its end. *)

\* Lines 64-69: the rest of __init__ once set_client has returned.
init_completes(i) ==
    /\ pc' = [pc EXCEPT ![i] = "ready"]
    /\ instances' = Append(instances, i)

init_raises_registers(i, exception) ==
    /\ pc' = [pc EXCEPT ![i] = "raised"]
    /\ raised' = [raised EXCEPT ![i] = exception]
    /\ instances' = Append(instances, i)

init_raises(i, exception) ==
    /\ pc' = [pc EXCEPT ![i] = "raised"]
    /\ raised' = [raised EXCEPT ![i] = exception]
    /\ instances' = instances

set_client_no_validity_check(i) ==
    /\ UNCHANGED resVars
    \* line 48: self.tenant_id = os.environ.get('XERO_TENANT_ID')
    /\ tenant_id' = [tenant_id EXCEPT ![i] = XERO_TENANT_ID]
    /\ UNCHANGED XERO_TENANT_ID
    /\ pc[i] = "new"
    /\ LET token == get_token(xero_token) IN
        /\ loaded' = [loaded EXCEPT ![i] = token]
        /\ last' = Call("set_client", i, token)
        /\ Truthy(token)
        /\ client' = [client EXCEPT ![i] = "ApiClient"]
        /\ token_getter' = [token_getter EXCEPT ![i] = "obtain_xero_oauth2_token"]
        /\ oauth2_token' = [oauth2_token EXCEPT ![i] = token]
        /\ xero_token' = store_xero_oauth2_token(xero_token, token)
        /\ token_saver' = [token_saver EXCEPT ![i] = "store_oauth2_token"]
        /\ init_completes(i)
        /\ UNCHANGED <<notices, raised>>
    /\ UNCHANGED <<now, issued>>

set_client_always_refreshes(i) ==
    /\ UNCHANGED resVars
    /\ tenant_id' = [tenant_id EXCEPT ![i] = XERO_TENANT_ID]
    /\ UNCHANGED XERO_TENANT_ID
    /\ pc[i] = "new"
    /\ LET token == get_token(xero_token) IN
        /\ loaded' = [loaded EXCEPT ![i] = token]
        /\ last' = Call("set_client", i, token)
        /\ IF expires_at_lookup(token) # "ok"
           THEN /\ init_raises(i, expires_at_lookup(token))
                /\ UNCHANGED <<client, oauth2_token, token_getter, token_saver,
                               xero_token, notices>>
           ELSE IF Truthy(token)
           THEN /\ client' = [client EXCEPT ![i] = "ApiClient"]
                /\ token_getter' = [token_getter EXCEPT ![i] = "obtain_xero_oauth2_token"]
                /\ oauth2_token' = [oauth2_token EXCEPT ![i] = token]
                /\ xero_token' = store_xero_oauth2_token(xero_token, token)
                /\ token_saver' = [token_saver EXCEPT ![i] = "store_oauth2_token"]
                /\ pc' = [pc EXCEPT ![i] = "refreshing"]
                /\ instances' = instances
                /\ UNCHANGED <<notices, raised>>
           ELSE /\ client' = [client EXCEPT ![i] = "None"]
                /\ notices' = [notices EXCEPT ![i] = @ + 1]
                /\ init_completes(i)
                /\ UNCHANGED <<oauth2_token, token_getter, token_saver,
                               xero_token, raised>>
    /\ UNCHANGED <<now, issued>>

set_client(i) ==
    /\ UNCHANGED resVars
    \* line 48: self.tenant_id = os.environ.get('XERO_TENANT_ID')
    /\ tenant_id' = [tenant_id EXCEPT ![i] = XERO_TENANT_ID]
    /\ UNCHANGED XERO_TENANT_ID
    /\ pc[i] = "new"
    /\ LET token == get_token(xero_token) IN
        /\ loaded' = [loaded EXCEPT ![i] = token]
        /\ last' = Call("set_client", i, token)
        /\ IF expires_at_lookup(token) # "ok"
           THEN \* line 73 raises before the token is looked at
                /\ init_raises(i, expires_at_lookup(token))
                /\ UNCHANGED <<client, oauth2_token, token_getter, token_saver,
                               xero_token, notices>>
           ELSE IF Truthy(token)
           THEN \* lines 82-101
                /\ client' = [client EXCEPT ![i] = "ApiClient"]
                /\ token_getter' = [token_getter EXCEPT ![i] = "obtain_xero_oauth2_token"]
                \* client.set_oauth2_token(token): the client takes the token and
                \* hands it to the registered saver, store_xero_oauth2_token
                /\ oauth2_token' = [oauth2_token EXCEPT ![i] = token]
                /\ xero_token' = store_xero_oauth2_token(xero_token, token)
                /\ token_saver' = [token_saver EXCEPT ![i] = "store_oauth2_token"]
                /\ IF is_access_token_valid(token, now)
                   THEN init_completes(i)
                   ELSE /\ pc' = [pc EXCEPT ![i] = "refreshing"]
                        /\ instances' = instances
                /\ UNCHANGED <<notices, raised>>
           ELSE \* lines 103-105
                /\ client' = [client EXCEPT ![i] = "None"]
                /\ notices' = [notices EXCEPT ![i] = @ + 1]
                /\ init_completes(i)
                /\ UNCHANGED <<oauth2_token, token_getter, token_saver,
                               xero_token, raised>>
    /\ UNCHANGED <<now, issued>>

\* The errors the identity server call of refresh_access_token ends with: the
\* refresh token was revoked, or the call did not get through.
RefreshErrors == {"invalid_grant", "connection_error"}

refresh_access_token_not_saved(i) ==
    /\ UNCHANGED resVars
    /\ UNCHANGED <<tenant_id, XERO_TENANT_ID>>
    /\ pc[i] = "refreshing"
    /\ issued < MaxIssued
    /\ issued' = issued + 1
    /\ oauth2_token' = [oauth2_token EXCEPT ![i] = Minted(issued + 1, now)]
    /\ last' = Call("refresh_access_token", i, Minted(issued + 1, now))
    /\ init_completes(i)
    /\ UNCHANGED <<xero_token, token_saver, now, client, token_getter, loaded,
                   raised, notices>>

\* Line 101, the refresh succeeds: the client takes the new token and hands it
\* to the registered saver; then the constructor runs to its end.
refresh_access_token(i) ==
    /\ UNCHANGED resVars
    /\ UNCHANGED <<tenant_id, XERO_TENANT_ID>>
    /\ pc[i] = "refreshing"
    /\ issued < MaxIssued
    /\ issued' = issued + 1
    /\ oauth2_token' = [oauth2_token EXCEPT ![i] = Minted(issued + 1, now)]
    /\ xero_token' = invoke_token_saver(i, xero_token, Minted(issued + 1, now))
    /\ token_saver' = [token_saver EXCEPT ![i] = "store_oauth2_token"]
    /\ last' = Call("refresh_access_token", i, Minted(issued + 1, now))
    /\ init_completes(i)
    /\ UNCHANGED <<now, client, token_getter, loaded, raised, notices>>

\* Line 101, the refresh fails: nothing in set_client or __init__ catches it.
refresh_access_token_raises(i) ==
    /\ UNCHANGED resVars
    /\ UNCHANGED <<tenant_id, XERO_TENANT_ID>>
    /\ pc[i] = "refreshing"
    /\ \E e \in RefreshErrors :
        /\ init_raises(i, e)
        /\ last' = Call("refresh_access_token_raises", i, None)
    /\ UNCHANGED <<xero_token, now, issued, client, oauth2_token, token_getter,
                   token_saver, loaded, notices>>

----------------------------------------------------------------------------
(* The client's use of the registered callbacks after construction. *)

client_get_oauth2_token(i) ==
    /\ UNCHANGED resVars
    /\ UNCHANGED <<tenant_id, XERO_TENANT_ID>>
    /\ pc[i] = "ready"
    /\ client[i] = "ApiClient"
    /\ token_getter' = [token_getter EXCEPT ![i] = "get_oauth2_token"]
    /\ last' = Call("get_oauth2_token", i, invoke_token_getter(i, xero_token))
    /\ UNCHANGED <<xero_token, now, issued, pc, client, oauth2_token, token_saver,
                   loaded, raised, notices, instances>>

\* The tokens the client hands to the saver: a token refreshed during a call,
\* or an empty or null one.
SaverInputs == {None, EmptyDict} \cup
               (IF issued < MaxIssued THEN {Minted(issued + 1, now)} ELSE {})

client_set_oauth2_token(i) ==
    /\ UNCHANGED resVars
    /\ UNCHANGED <<tenant_id, XERO_TENANT_ID>>
    /\ pc[i] = "ready"
    /\ client[i] = "ApiClient"
    /\ \E token \in SaverInputs :
        /\ oauth2_token' = [oauth2_token EXCEPT ![i] = token]
        /\ xero_token' = invoke_token_saver(i, xero_token, token)
        /\ issued' = IF Truthy(token) THEN issued + 1 ELSE issued
        /\ last' = Call("store_oauth2_token", i, token)
    /\ token_saver' = [token_saver EXCEPT ![i] = "store_oauth2_token"]
    /\ UNCHANGED <<now, pc, client, token_getter, loaded, raised, notices,
                   instances>>

\* A refresh after construction, in its two steps.  First the identity server
\* answers the client's refresh request and the client's OAuth2Token takes the
\* new token; the saver has not run yet.
client_refresh_oauth2_token(i) ==
    /\ UNCHANGED resVars
    /\ UNCHANGED <<tenant_id, XERO_TENANT_ID>>
    /\ pc[i] = "ready"
    /\ client[i] = "ApiClient"
    /\ issued < MaxIssued
    /\ issued' = issued + 1
    /\ oauth2_token' = [oauth2_token EXCEPT ![i] = Minted(issued + 1, now)]
    /\ pc' = [pc EXCEPT ![i] = "saving"]
    /\ last' = Call("refresh_oauth2_token", i, Minted(issued + 1, now))
    /\ UNCHANGED <<xero_token, now, client, token_getter, token_saver, loaded,
                   raised, notices, instances>>

\* Then the client hands the token it took to the registered saver.
client_saves_refreshed_token(i) ==
    /\ UNCHANGED resVars
    /\ UNCHANGED <<tenant_id, XERO_TENANT_ID>>
    /\ pc[i] = "saving"
    /\ xero_token' = invoke_token_saver(i, xero_token, oauth2_token[i])
    /\ token_saver' = [token_saver EXCEPT ![i] = "store_oauth2_token"]
    /\ pc' = [pc EXCEPT ![i] = "ready"]
    /\ last' = Call("store_oauth2_token", i, oauth2_token[i])
    /\ UNCHANGED <<now, issued, client, oauth2_token, token_getter, loaded,
                   raised, notices, instances>>

\* Another process sharing the store saves a token of its own.
other_process_stores_token ==
    /\ UNCHANGED resVars
    /\ UNCHANGED <<tenant_id, XERO_TENANT_ID>>
    /\ issued < MaxIssued
    /\ issued' = issued + 1
    /\ xero_token' = store_oauth2_token(xero_token, Minted(issued + 1, now))
    /\ last' = Call("other_process", "none", Minted(issued + 1, now))
    /\ UNCHANGED <<now, pc, client, oauth2_token, token_getter, token_saver,
                   loaded, raised, notices, instances>>

\* Time passes.
tick ==
    /\ UNCHANGED resVars
    /\ UNCHANGED <<tenant_id, XERO_TENANT_ID>>
    /\ now < MaxNow
    /\ now' = now + 1
    /\ last' = Call("tick", "none", None)
    /\ UNCHANGED <<xero_token, issued, pc, client, oauth2_token, token_getter,
                   token_saver, loaded, raised, notices, instances>>

----------------------------------------------------------------------------
(* The resource adapter.  An entity is its identifier, its status and its
   reference (a field the adapter never looks at); the vendor holds the
   entities of the tenant.  Every vendor call of an adapter
   call is numbered, and the environment decides for each number whether the
   call goes through, is rejected as a bad request, or fails otherwise. *)

Resources == {"invoice", "item", "manual_journal", "payment"}

\* What the adapter only reads: the tenant's organisation, and the repeating
\* invoices.
ReadOnly == {"organization", "repeating_invoice"}

\* The identifiers the vendor assigns.  0 stands for "no identifier" (None).
Ids == {1, 2}

Status == {"DRAFT", "AUTHORISED", "POSTED", "DELETED", "VOIDED"}

\* The statuses entities of a type are created with: none is created as deleted
\* or voided.
StatusOf(k) ==
    CASE k = "invoice" -> Status \ {"DELETED", "VOIDED"}
      [] k = "manual_journal" -> Status \ {"DELETED", "VOIDED"}
      [] k = "payment" -> {"AUTHORISED"}
      [] k = "item" -> {"NONE"}

\* The references callers give their entities.
References == {"test", "changed"}

Entity(id, status, reference) == [id |-> id, status |-> status, reference |-> reference]

\* What the vendor holds under an identifier: the fields of the entity, or Absent.
Fields(status, reference) == [status |-> status, reference |-> reference]

Absent == Fields("absent", "none")

\* where: a filter on the status ("all": no filter given)
Filters == {"all", "DRAFT", "POSTED"}

Faults == {"ok", "bad_request", "error"}

\* The environment of one adapter call: the outcome of its n-th vendor call,
\* and how the vendor reports a get by an identifier it does not know.
Envs == [faults : [1..MaxFaultedCalls -> Faults], miss : {"empty", "not_found"}]

\* The environments of an adapter call that makes n vendor calls at most: one
\* of the n calls fails, or none does.
EnvsOf(n, misses) ==
    {env \in Envs : /\ env.miss \in misses
                    /\ \A k \in DOMAIN env.faults : k > n => env.faults[k] = "ok"
                    /\ Cardinality({k \in DOMAIN env.faults : env.faults[k] # "ok"}) <= 1}

\* How the vendor may answer a get or a delete by id: by a miss, in either way,
\* only for an identifier it does not know.
MissesOf(d, sel) ==
    IF sel.id # 0 /\ d[sel.id] = Absent THEN {"empty", "not_found"} ELSE {"empty"}

FaultAt(env, calls) ==
    IF Len(calls) + 1 \in DOMAIN env.faults THEN env.faults[Len(calls) + 1] ELSE "ok"

VendorCall_tenant_from_environ(api, id) ==
    [api |-> api, id |-> id, tenant |-> XERO_TENANT_ID, request |-> "none"]

\* A call of self.accounting_api: the method, the tenant identifier it is given
\* (self.tenant_id), the entity identifier if any, the request body if any.
VendorCall(api, id) ==
    [api |-> api, id |-> id, tenant |-> tenant_id[Adapter], request |-> "none"]

\* PaymentDelete(status=...)
PaymentDelete(status) == status

\* The outcome of a vendor call or of an adapter method: it returned a value (an
\* entity, None or a list) or raised; the vendor calls made so far; the vendor's
\* entities afterwards; the error-level log entries written; and the objects of
\* the caller the method has assigned to (marked), as they are afterwards.
Returned(shape, items, calls, d, errors) ==
    [outcome |-> "returned", exception |-> "none", shape |-> shape, items |-> items,
     calls |-> calls, db |-> d, errors |-> errors, marked |-> <<>>]

Raised(exception, calls, d, errors) ==
    [outcome |-> "raised", exception |-> exception, shape |-> "none", items |-> <<>>,
     calls |-> calls, db |-> d, errors |-> errors, marked |-> <<>>]

\* The outcome r of a method that has assigned to the caller's objects before.
Marked(r, list) == [r EXCEPT !.marked = list]

\* The exception a failing vendor call raises.
VendorException(fault) ==
    IF fault = "bad_request" THEN "AccountingBadRequestException" ELSE "ApiException"

RECURSIVE SortedIds(_)
SortedIds(S) ==
    IF S = {} THEN <<>>
    ELSE LET m == CHOOSE x \in S : \A y \in S : x <= y
         IN <<m>> \o SortedIds(S \ {m})

Present(d) == {id \in Ids : d[id] # Absent}

MatchingIds(d, where) ==
    {id \in Present(d) : where = "all" \/ d[id].status = where}

EntitiesOf(d, ids) ==
    [n \in 1..Len(ids) |-> Entity(ids[n], d[ids[n]].status, d[ids[n]].reference)]

\* accounting_api.get_invoice / get_item / get_manual_journal / get_payment
vendor_get(d, id, env, calls, errors) ==
    LET made == Append(calls, VendorCall("get", id)) IN
    IF FaultAt(env, calls) # "ok"
    THEN Raised(VendorException(FaultAt(env, calls)), made, d, errors)
    ELSE IF id \in Present(d)
    THEN Returned("list", EntitiesOf(d, <<id>>), made, d, errors)
    ELSE IF env.miss = "not_found"
    THEN Raised("NotFoundException", made, d, errors)
    ELSE Returned("list", <<>>, made, d, errors)

\* accounting_api.get_invoices / get_items / get_manual_journals / get_payments
vendor_list(d, where, env, calls, errors) ==
    LET made == Append(calls, VendorCall("list", 0)) IN
    IF FaultAt(env, calls) # "ok"
    THEN Raised(VendorException(FaultAt(env, calls)), made, d, errors)
    ELSE Returned("list", EntitiesOf(d, SortedIds(MatchingIds(d, where))), made, d, errors)

RECURSIVE Upsert(_, _, _)
\* The vendor's entities after it has taken the first n entities of a batch:
\* one with a known identifier is replaced, any other is created under a free one.
Upsert(d, items, n) ==
    IF n = 0 THEN d
    ELSE LET before == Upsert(d, items, n - 1)
             e == items[n]
             free == Ids \ Present(before)
             id == IF e.id \in Ids THEN e.id
                   ELSE CHOOSE x \in free : \A y \in free : x <= y
         IN [before EXCEPT ![id] = Fields(e.status, e.reference)]

RECURSIVE Stored(_, _, _)
\* The entities the vendor answers a batch with: each as it now stands.
Stored(d, items, n) ==
    IF n = 0 THEN <<>>
    ELSE LET before == Upsert(d, items, n - 1)
             e == items[n]
             free == Ids \ Present(before)
             id == IF e.id \in Ids THEN e.id
                   ELSE CHOOSE x \in free : \A y \in free : x <= y
         IN Append(Stored(d, items, n - 1), Entity(id, e.status, e.reference))

NewIn(items) == Cardinality({n \in 1..Len(items) : items[n].id \notin Ids})

\* accounting_api.create_* and update_or_create_*: one batch call.  The vendor
\* rejects a batch it has no room for.
vendor_batch(api, d, items, env, calls, errors) ==
    LET made == Append(calls, VendorCall(api, 0)) IN
    IF FaultAt(env, calls) # "ok"
    THEN Raised(VendorException(FaultAt(env, calls)), made, d, errors)
    ELSE IF NewIn(items) > Cardinality(Ids \ Present(d))
    THEN Raised("AccountingBadRequestException", made, d, errors)
    ELSE Returned("list", Stored(d, items, Len(items)), made,
                  Upsert(d, items, Len(items)), errors)

\* accounting_api.delete_payment(tenant_id, payment_id, payment_delete)
vendor_delete_payment(d, id, payment_delete, env, calls, errors) ==
    LET made == Append(calls, [VendorCall("delete_payment", id)
                                    EXCEPT !.request = payment_delete]) IN
    IF FaultAt(env, calls) # "ok"
    THEN Raised(VendorException(FaultAt(env, calls)), made, d, errors)
    ELSE IF id \in Present(d)
    THEN Returned("list", <<Entity(id, payment_delete, d[id].reference)>>, made,
                  [d EXCEPT ![id].status = payment_delete], errors)
    ELSE IF env.miss = "not_found"
    THEN Raised("NotFoundException", made, d, errors)
    ELSE Returned("list", <<>>, made, d, errors)

\* accounting_api.delete_item(item_id)
vendor_delete_item(d, id, env, calls, errors) ==
    LET made == Append(calls, VendorCall("delete_item", id)) IN
    IF FaultAt(env, calls) # "ok"
    THEN Raised(VendorException(FaultAt(env, calls)), made, d, errors)
    ELSE IF id \in Present(d)
    THEN Returned("None", <<>>, made, [d EXCEPT ![id] = Absent], errors)
    ELSE IF env.miss = "not_found"
    THEN Raised("NotFoundException", made, d, errors)
    ELSE Returned("None", <<>>, made, d, errors)

----------------------------------------------------------------------------
(* The keyword arguments of read_* and delete_*: id, the entity list, and the
   filter.  list_given tells an explicit list from none (both are falsy when
   the list is empty). *)

Selector(id, list_given, list, where) ==
    [id |-> id, list_given |-> list_given, list |-> list, where |-> where]

ById(id) == Selector(id, FALSE, <<>>, "all")

ByList(list) == Selector(0, TRUE, list, "all")

ByFilter(where) == Selector(0, FALSE, <<>>, where)

except_any(r) ==
    IF r.outcome = "raised"
    THEN Marked(Returned("list", <<>>, r.calls, r.db, r.errors + 1), r.marked)
    ELSE r

\* "except AccountingBadRequestException as e: logger.error(...)" and the
\* "return []" after it; any other exception leaves the method.
except_bad_request(r) ==
    IF r.outcome = "raised" /\ r.exception = "AccountingBadRequestException"
    THEN Marked(Returned("list", <<>>, r.calls, r.db, r.errors + 1), r.marked)
    ELSE r

\* read_items has a second handler: "except NotFoundException as e".
except_not_found(r) ==
    IF r.outcome = "raised" /\ r.exception = "NotFoundException"
    THEN Returned("list", <<>>, r.calls, r.db, r.errors + 1)
    ELSE r

read_try_retries(d, sel, env, calls, errors) ==
    IF sel.id # 0
    THEN LET first == vendor_get(d, sel.id, env, calls, errors)
             r == IF first.outcome = "raised"
                  THEN vendor_get(d, sel.id, env, first.calls, first.errors)
                  ELSE first
         IN
         IF r.outcome = "raised" THEN r
         ELSE IF Len(r.items) = 1
         THEN Returned("entity", r.items, r.calls, r.db, r.errors)
         ELSE Returned("None", <<>>, r.calls, r.db, r.errors)
    ELSE LET first == vendor_list(d, sel.where, env, calls, errors) IN
         IF first.outcome = "raised"
         THEN vendor_list(d, sel.where, env, first.calls, first.errors)
         ELSE first

\* The try block of read_invoices, read_items, read_manual_journals and
\* read_payments: "if id:" a get by id, else a list with the other arguments.
read_try(d, sel, env, calls, errors) ==
    IF sel.id # 0
    THEN LET r == vendor_get(d, sel.id, env, calls, errors) IN
         IF r.outcome = "raised" THEN r
         ELSE IF Len(r.items) = 1
         THEN Returned("entity", r.items, r.calls, r.db, r.errors)
         ELSE Returned("None", <<>>, r.calls, r.db, r.errors)
    ELSE vendor_list(d, sel.where, env, calls, errors)

read_invoices(d, sel, env, calls, errors) ==
    except_bad_request(read_try(d, sel, env, calls, errors))

read_items(d, sel, env, calls, errors) ==
    except_not_found(except_bad_request(read_try(d, sel, env, calls, errors)))

read_manual_journals(d, sel, env, calls, errors) ==
    except_bad_request(read_try(d, sel, env, calls, errors))

read_payments(d, sel, env, calls, errors) ==
    except_bad_request(read_try(d, sel, env, calls, errors))

\* read_organizations: one list call, whatever the keyword arguments
read_organizations(d, env, calls, errors) ==
    except_bad_request(vendor_list(d, "all", env, calls, errors))

\* get_repeating_invoice: "repeating_invoice = None", then the get and
\* "api_response.repeating_invoices[0]" in the try block; the handler falls
\* through to "return repeating_invoice".
get_repeating_invoice(d, id, env, calls, errors) ==
    LET r == vendor_get(d, id, env, calls, errors) IN
    IF r.outcome = "raised"
    THEN (IF r.exception = "AccountingBadRequestException"
          THEN Returned("None", <<>>, r.calls, r.db, r.errors + 1)
          ELSE r)
    ELSE IF r.items = <<>>
    THEN Raised("IndexError", r.calls, r.db, r.errors)
    ELSE Returned("entity", <<r.items[1]>>, r.calls, r.db, r.errors)

\* get_repeating_invoices: "repeating_invoice_list = []", then the list call
get_repeating_invoices(d, where, env, calls, errors) ==
    except_bad_request(vendor_list(d, where, env, calls, errors))

create_invoices(d, list, env, calls, errors) ==
    except_bad_request(vendor_batch("create", d, list, env, calls, errors))

create_items(d, list, env, calls, errors) ==
    except_bad_request(vendor_batch("create", d, list, env, calls, errors))

create_manual_journals(d, list, env, calls, errors) ==
    except_bad_request(vendor_batch("create", d, list, env, calls, errors))

create_payments(d, list, env, calls, errors) ==
    except_bad_request(vendor_batch("create", d, list, env, calls, errors))

update_invoices_without_id(d, list, env, calls, errors) ==
    except_bad_request(vendor_batch("update_or_create", d,
        [n \in 1..Len(list) |-> [list[n] EXCEPT !.id = 0]], env, calls, errors))

update_invoices(d, list, env, calls, errors) ==
    except_bad_request(vendor_batch("update_or_create", d, list, env, calls, errors))

update_items(d, list, env, calls, errors) ==
    except_bad_request(vendor_batch("update_or_create", d, list, env, calls, errors))

update_manual_journals(d, list, env, calls, errors) ==
    except_bad_request(vendor_batch("update_or_create", d, list, env, calls, errors))

----------------------------------------------------------------------------
(* Soft delete: invoices and manual journals *)

mark_invoice_deleted_on_posted(status) ==
    IF status = "DRAFT" THEN "DELETED"
    ELSE IF status = "POSTED" THEN "VOIDED"
    ELSE status

mark_invoice_deleted(status) ==
    IF status = "DRAFT" THEN "DELETED"
    ELSE IF status = "AUTHORISED" THEN "VOIDED"
    ELSE status

mark_manual_journal_deleted(status) ==
    IF status = "DRAFT" THEN "DELETED"
    ELSE IF status = "POSTED" THEN "VOIDED"
    ELSE status

mark_invoices_drops_reference(list) ==
    [n \in 1..Len(list) |->
        Entity(list[n].id, mark_invoice_deleted(list[n].status), "none")]

\* mark_invoice_deleted on each invoice of a list: the status is assigned, every
\* other field of the object stays.
mark_invoices(list) ==
    [n \in 1..Len(list) |->
        [list[n] EXCEPT !.status = mark_invoice_deleted(list[n].status)]]

mark_manual_journals(list) ==
    [n \in 1..Len(list) |->
        [list[n] EXCEPT !.status = mark_manual_journal_deleted(list[n].status)]]

delete_invoices_try_empty_batch(d, sel, env) ==
    IF sel.id # 0
    THEN LET r == read_invoices(d, ById(sel.id), env, <<>>, 0) IN
         IF r.outcome = "raised" THEN r
         ELSE IF r.shape # "entity"
         THEN Raised("AttributeError", r.calls, r.db, r.errors)
         ELSE update_invoices(r.db, mark_invoices(r.items), env, r.calls, r.errors)
    ELSE IF sel.list # <<>>
    THEN update_invoices(d, mark_invoices(sel.list), env, <<>>, 0)
    ELSE LET r == read_invoices(d, ByFilter(sel.where), env, <<>>, 0) IN
         IF r.outcome = "raised" THEN r
         ELSE update_invoices(r.db, mark_invoices(r.items), env, r.calls, r.errors)

delete_invoices_try_list_first(d, sel, env) ==
    IF sel.list # <<>>
    THEN Marked(update_invoices(d, mark_invoices(sel.list), env, <<>>, 0),
                mark_invoices(sel.list))
    ELSE IF sel.id # 0
    THEN LET r == read_invoices(d, ById(sel.id), env, <<>>, 0) IN
         IF r.outcome = "raised" THEN r
         ELSE IF r.shape # "entity"
         THEN Raised("AttributeError", r.calls, r.db, r.errors)
         ELSE update_invoices(r.db, mark_invoices(r.items), env, r.calls, r.errors)
    ELSE LET r == read_invoices(d, ByFilter(sel.where), env, <<>>, 0) IN
         IF r.outcome = "raised" THEN r
         ELSE IF r.items = <<>>
         THEN Returned("list", <<>>, r.calls, r.db, r.errors)
         ELSE update_invoices(r.db, mark_invoices(r.items), env, r.calls, r.errors)

\* The try block of delete_invoices (lines 332-356)
delete_invoices_try(d, sel, env) ==
    IF sel.id # 0
    THEN LET r == read_invoices(d, ById(sel.id), env, <<>>, 0) IN
         IF r.outcome = "raised" THEN r
         ELSE IF r.shape # "entity"
         THEN \* invoice.status of None, or of the [] a rejected read returns
              Raised("AttributeError", r.calls, r.db, r.errors)
         ELSE update_invoices(r.db, mark_invoices(r.items), env, r.calls, r.errors)
    ELSE IF sel.list # <<>>
    THEN \* the caller's invoices are marked in place, then passed to the update
         Marked(update_invoices(d, mark_invoices(sel.list), env, <<>>, 0),
                mark_invoices(sel.list))
    ELSE LET r == read_invoices(d, ByFilter(sel.where), env, <<>>, 0) IN
         IF r.outcome = "raised" THEN r
         ELSE IF r.items = <<>>
         THEN Returned("list", <<>>, r.calls, r.db, r.errors)
         ELSE update_invoices(r.db, mark_invoices(r.items), env, r.calls, r.errors)

delete_invoices(d, sel, env) == except_bad_request(delete_invoices_try(d, sel, env))

\* The try block of delete_manual_journals (lines 629-653)
delete_manual_journals_try(d, sel, env) ==
    IF sel.id # 0
    THEN LET r == read_manual_journals(d, ById(sel.id), env, <<>>, 0) IN
         IF r.outcome = "raised" THEN r
         ELSE IF r.shape # "entity"
         THEN Raised("AttributeError", r.calls, r.db, r.errors)
         ELSE update_manual_journals(r.db, mark_manual_journals(r.items), env,
                                     r.calls, r.errors)
    ELSE IF sel.list # <<>>
    THEN Marked(update_manual_journals(d, mark_manual_journals(sel.list), env, <<>>, 0),
                mark_manual_journals(sel.list))
    ELSE LET r == read_manual_journals(d, ByFilter(sel.where), env, <<>>, 0) IN
         IF r.outcome = "raised" THEN r
         ELSE IF r.items = <<>>
         THEN Returned("list", <<>>, r.calls, r.db, r.errors)
         ELSE update_manual_journals(r.db, mark_manual_journals(r.items), env,
                                     r.calls, r.errors)

delete_manual_journals(d, sel, env) ==
    except_bad_request(delete_manual_journals_try(d, sel, env))

----------------------------------------------------------------------------
(* Hard delete: payments and items *)

RECURSIVE delete_payment_loop(_, _, _, _)
\* "for payment in payment_list:" delete_payment, then append payments.payments[0].
\* acc is the outcome so far, its items the payment_list_deleted.
delete_payment_loop(list, n, env, acc) ==
    IF n > Len(list) \/ acc.outcome = "raised" THEN acc
    ELSE LET r == vendor_delete_payment(acc.db, list[n].id, PaymentDelete("DELETED"),
                                        env, acc.calls, acc.errors) IN
         delete_payment_loop(list, n + 1, env,
            IF r.outcome = "raised" THEN r
            ELSE IF r.items = <<>>
            THEN Raised("IndexError", r.calls, r.db, r.errors)
            ELSE Returned("list", Append(acc.items, r.items[1]), r.calls, r.db, r.errors))

delete_payments_try_soft(d, sel, env) ==
    LET deleted(list) == [n \in 1..Len(list) |-> [list[n] EXCEPT !.status = "DELETED"]] IN
    IF sel.id # 0
    THEN vendor_delete_payment(d, sel.id, PaymentDelete("DELETED"), env, <<>>, 0)
    ELSE IF sel.list # <<>>
    THEN Marked(vendor_batch("update_or_create", d, deleted(sel.list), env, <<>>, 0),
                deleted(sel.list))
    ELSE LET r == read_payments(d, ByFilter(sel.where), env, <<>>, 0) IN
         IF r.outcome = "raised" THEN r
         ELSE IF r.items = <<>>
         THEN Returned("list", <<>>, r.calls, r.db, r.errors)
         ELSE vendor_batch("update_or_create", r.db, deleted(r.items), env,
                           r.calls, r.errors)

\* The try block of delete_payments (lines 772-807)
delete_payments_try(d, sel, env) ==
    IF sel.id # 0
    THEN vendor_delete_payment(d, sel.id, PaymentDelete("DELETED"), env, <<>>, 0)
    ELSE IF sel.list # <<>>
    THEN delete_payment_loop(sel.list, 1, env, Returned("list", <<>>, <<>>, d, 0))
    ELSE LET r == read_payments(d, ByFilter(sel.where), env, <<>>, 0) IN
         IF r.outcome = "raised" THEN r
         ELSE IF r.items = <<>>
         THEN Returned("list", <<>>, r.calls, r.db, r.errors)
         ELSE delete_payment_loop(r.items, 1, env,
                                  Returned("list", <<>>, r.calls, r.db, r.errors))

delete_payments(d, sel, env) == except_bad_request(delete_payments_try(d, sel, env))

RECURSIVE delete_item_loop(_, _, _, _)
\* "for item in item_list:" delete_item
delete_item_loop(list, n, env, acc) ==
    IF n > Len(list) \/ acc.outcome = "raised" THEN acc
    ELSE delete_item_loop(list, n + 1, env,
            vendor_delete_item(acc.db, list[n].id, env, acc.calls, acc.errors))

delete_items_try_soft(d, sel, env) ==
    LET deleted(list) == [n \in 1..Len(list) |-> [list[n] EXCEPT !.status = "DELETED"]] IN
    IF sel.id # 0
    THEN vendor_delete_item(d, sel.id, env, <<>>, 0)
    ELSE IF sel.list # <<>>
    THEN Marked(vendor_batch("update_or_create", d, deleted(sel.list), env, <<>>, 0),
                deleted(sel.list))
    ELSE LET r == read_items(d, ByFilter(sel.where), env, <<>>, 0) IN
         IF r.outcome = "raised" THEN r
         ELSE IF r.items = <<>>
         THEN Returned("list", <<>>, r.calls, r.db, r.errors)
         ELSE vendor_batch("update_or_create", r.db, deleted(r.items), env,
                           r.calls, r.errors)

\* The try block of delete_items (lines 488-508); it ends without a return.
delete_items_try(d, sel, env) ==
    IF sel.id # 0
    THEN vendor_delete_item(d, sel.id, env, <<>>, 0)
    ELSE IF sel.list # <<>>
    THEN delete_item_loop(sel.list, 1, env, Returned("None", <<>>, <<>>, d, 0))
    ELSE LET r == read_items(d, ByFilter(sel.where), env, <<>>, 0) IN
         IF r.outcome = "raised" THEN r
         ELSE IF r.items = <<>>
         THEN Returned("list", <<>>, r.calls, r.db, r.errors)
         ELSE delete_item_loop(r.items, 1, env,
                               Returned("None", <<>>, r.calls, r.db, r.errors))

\* line 513: "return []" whatever the try block did, unless it raised
delete_items(d, sel, env) ==
    LET r == except_bad_request(delete_items_try(d, sel, env)) IN
    IF r.outcome = "raised" THEN r
    ELSE Returned("list", <<>>, r.calls, r.db, r.errors)

----------------------------------------------------------------------------
(* The calls a user of the adapter makes on the resource type at hand. *)

\* What ret keeps of an adapter call: the arguments, what the environment had
\* in store for it, the vendor's entities before it, and the outcome.
CallRecord(op, sel, env, r) ==
    [op |-> op, sel |-> sel, env |-> env, before |-> db, outcome |-> r.outcome,
     exception |-> r.exception, shape |-> r.shape, items |-> r.items,
     calls |-> r.calls, errors |-> r.errors, marked |-> r.marked]

NoCall ==
    [op |-> "none", sel |-> ByFilter("all"),
     env |-> [faults |-> [k \in 1..MaxFaultedCalls |-> "ok"], miss |-> "empty"],
     before |-> [id \in Ids |-> Absent],
     outcome |-> "none", exception |-> "none", shape |-> "none", items |-> <<>>,
     calls |-> <<>>, errors |-> 0, marked |-> <<>>]

Completes(op, sel, env, r) ==
    /\ pc[Adapter] = "ready"
    /\ ret' = CallRecord(op, sel, env, r)
    /\ db' = r.db
    /\ kind' = kind
    /\ UNCHANGED tokenVars

\* The lists of entities a caller holds: entities read from the vendor, each once.
ListsOf(d) ==
    {<<>>} \cup {EntitiesOf(d, <<a>>) : a \in Present(d)}
           \cup {EntitiesOf(d, <<a, b>>) : <<a, b>> \in {p \in Present(d) \X Present(d) : p[1] # p[2]}}

create_entities ==
    /\ kind \in Resources
    /\ \E status \in StatusOf(kind), env \in EnvsOf(1, {"empty"}) :
        LET list == <<Entity(0, status, "test")>> IN
        Completes("create", ByList(list), env,
            CASE kind = "invoice" -> create_invoices(db, list, env, <<>>, 0)
              [] kind = "item" -> create_items(db, list, env, <<>>, 0)
              [] kind = "manual_journal" -> create_manual_journals(db, list, env, <<>>, 0)
              [] kind = "payment" -> create_payments(db, list, env, <<>>, 0))

read_entities ==
    \E sel \in {ById(id) : id \in Ids} \cup {ByFilter(w) : w \in Filters} :
        \E env \in EnvsOf(1, MissesOf(db, sel)) :
            Completes("read", sel, env,
                CASE kind = "invoice" -> read_invoices(db, sel, env, <<>>, 0)
                  [] kind = "item" -> read_items(db, sel, env, <<>>, 0)
                  [] kind = "manual_journal" -> read_manual_journals(db, sel, env, <<>>, 0)
                  [] kind = "payment" -> read_payments(db, sel, env, <<>>, 0)
                  [] kind = "organization" -> read_organizations(db, env, <<>>, 0)
                  [] kind = "repeating_invoice" ->
                        IF sel.id # 0
                        THEN get_repeating_invoice(db, sel.id, env, <<>>, 0)
                        ELSE get_repeating_invoices(db, sel.where, env, <<>>, 0))

\* The entities a caller passes to update_*: a new one, or one the vendor holds
\* with a reference the caller has assigned to it.
UpdateInputs(d) ==
    {Entity(0, status, "test") : status \in StatusOf(kind)}
        \cup {Entity(id, d[id].status, reference) :
                    id \in Present(d), reference \in References}

\* The adapter has no update_payments.
update_entities ==
    /\ kind \in Resources \ {"payment"}
    /\ \E e \in UpdateInputs(db), env \in EnvsOf(1, {"empty"}) :
        LET list == <<e>> IN
        Completes("update", ByList(list), env,
            CASE kind = "invoice" -> update_invoices(db, list, env, <<>>, 0)
              [] kind = "item" -> update_items(db, list, env, <<>>, 0)
              [] kind = "manual_journal" -> update_manual_journals(db, list, env, <<>>, 0))

DeleteSelectors ==
    {ById(id) : id \in Ids} \cup {ByList(l) : l \in ListsOf(db)}
                            \cup {ByFilter(w) : w \in Filters}

\* The most vendor calls a delete_* makes: a read and an update, or a read and
\* one delete call per entity.
CallsOf(sel) ==
    IF kind \in {"invoice", "manual_journal"}
    THEN (IF sel.id = 0 /\ sel.list # <<>> THEN 1 ELSE 2)
    ELSE IF sel.id # 0 THEN 1
    ELSE IF sel.list # <<>> THEN Len(sel.list)
    ELSE 1 + Cardinality(MatchingIds(db, sel.where))

delete_entities ==
    /\ kind \in Resources
    /\ \E sel \in DeleteSelectors :
        \E env \in EnvsOf(CallsOf(sel), MissesOf(db, sel)) :
            Completes("delete", sel, env,
                CASE kind = "invoice" -> delete_invoices(db, sel, env)
                  [] kind = "item" -> delete_items(db, sel, env)
                  [] kind = "manual_journal" -> delete_manual_journals(db, sel, env)
                  [] kind = "payment" -> delete_payments(db, sel, env))

\* Several selectors in one call: an id of the vendor's with a list of another
\* entity and a filter, or a list of one entity with a filter.
SeveralSelectors ==
    UNION {{Selector(id, TRUE, l, "DRAFT") :
                l \in {m \in ListsOf(db) : Len(m) = 1 /\ m[1].id # id}} :
           id \in Present(db)}
    \cup {Selector(0, TRUE, l, "DRAFT") : l \in {m \in ListsOf(db) : Len(m) = 1}}

\* delete_*(id=..., <entity>_list=..., where=...), every vendor call going through
delete_entities_by_several ==
    /\ kind \in Resources
    /\ \E sel \in SeveralSelectors :
        LET env == NoCall.env IN
            Completes("delete", sel, env,
                CASE kind = "invoice" -> delete_invoices(db, sel, env)
                  [] kind = "item" -> delete_items(db, sel, env)
                  [] kind = "manual_journal" -> delete_manual_journals(db, sel, env)
                  [] kind = "payment" -> delete_payments(db, sel, env))

----------------------------------------------------------------------------
(* The specifications *)

\* The store at process start: no token record, or one minted earlier, expired
\* or not.
InitialStores == {{}} \cup {{Doc("token", Token(0, 0, e))} : e \in 0..TokenLifetime}

TokenInit ==
    /\ xero_token \in InitialStores
    /\ now = 0
    /\ issued = 0
    /\ pc = [i \in Inst |-> "new"]
    /\ client = [i \in Inst |-> "unset"]
    /\ oauth2_token = [i \in Inst |-> None]
    /\ token_getter = [i \in Inst |-> "unset"]
    /\ token_saver = [i \in Inst |-> "unset"]
    /\ loaded = [i \in Inst |-> None]
    /\ raised = [i \in Inst |-> "none"]
    /\ notices = [i \in Inst |-> 0]
    /\ instances = <<>>
    /\ tenant_id = [i \in Inst |-> "unset"]
    /\ XERO_TENANT_ID \in Tenants
    /\ last = Call("none", "none", None)

\* What the vendor holds of a type the adapter cannot create: the one
\* organisation of the tenant; no, one or two repeating invoices.
HeldOf(k) ==
    IF k = "organization" THEN {[id \in Ids |-> IF id = 1 THEN Fields("ACTIVE", "none") ELSE Absent]}
    ELSE {[id \in Ids |-> IF id <= n THEN Fields("AUTHORISED", "test") ELSE Absent] : n \in 0..2}

\* The tenant holds no entity of a type the adapter creates yet; no adapter call
\* has been made.
ResourceInit ==
    /\ kind \in Resources \cup ReadOnly
    /\ db \in (IF kind \in ReadOnly THEN HeldOf(kind) ELSE {[id \in Ids |-> Absent]})
    /\ ret = NoCall

Init == TokenInit /\ ResourceInit

TokenNext ==
    \/ \E i \in Inst : set_client(i)
    \/ \E i \in Inst : refresh_access_token(i)
    \/ \E i \in Inst : refresh_access_token_raises(i)
    \/ \E i \in Inst : client_get_oauth2_token(i)
    \/ \E i \in Inst : client_set_oauth2_token(i)
    \/ \E i \in Inst : client_refresh_oauth2_token(i)
    \/ \E i \in Inst : client_saves_refreshed_token(i)
    \/ other_process_stores_token
    \/ tick

ResourceNext ==
    \/ create_entities
    \/ read_entities
    \/ update_entities
    \/ delete_entities
    \/ delete_entities_by_several

Next == TokenNext \/ ResourceNext

Spec == Init /\ [][Next]_vars

\* The token manager alone (the constructor, the callbacks, the store), with
\* no adapter call made.
TokenStart == TokenInit /\ ResourceInit /\ kind = "invoice"

TokenSpec == TokenStart /\ [][TokenNext]_vars

\* The resource adapter alone: the adapter object has been constructed from a
\* valid token, when XERO_TENANT_ID was T1; the process has set the variable to
\* T2 since.  The resource methods read and write nothing of the token manager's
\* state but self.tenant_id.
ResourceStart ==
    /\ ResourceInit
    /\ XERO_TENANT_ID = "T2"
    /\ tenant_id = [i \in Inst |-> IF i = Adapter THEN "T1" ELSE "unset"]
    /\ LET token == Token(0, 0, TokenLifetime) IN
        /\ xero_token = {Doc("token", token)}
        /\ oauth2_token = [i \in Inst |-> IF i = Adapter THEN token ELSE None]
        /\ loaded = [i \in Inst |-> IF i = Adapter THEN token ELSE None]
        /\ last = Call("set_client", Adapter, token)
    /\ now = 0
    /\ issued = 0
    /\ pc = [i \in Inst |-> IF i = Adapter THEN "ready" ELSE "new"]
    /\ client = [i \in Inst |-> IF i = Adapter THEN "ApiClient" ELSE "unset"]
    /\ token_getter = [i \in Inst |-> IF i = Adapter THEN "obtain_xero_oauth2_token"
                                     ELSE "unset"]
    /\ token_saver = [i \in Inst |-> IF i = Adapter THEN "store_oauth2_token"
                                    ELSE "unset"]
    /\ raised = [i \in Inst |-> "none"]
    /\ notices = [i \in Inst |-> 0]
    /\ instances = <<Adapter>>

ResourceSpec == ResourceStart /\ [][ResourceNext]_vars

----------------------------------------------------------------------------
(* Properties of the token manager, under TokenSpec *)

Constructed(i) == pc[i] \in {"ready", "raised"}

\* C1: when the store holds no token record, the constructor's set_client ends
\* without raising, leaves self.client None and calls notify_to_reauthorize
\* exactly once.
C1_NoTokenLeavesClientUnavailable ==
    \A i \in Inst :
        (Constructed(i) /\ loaded[i] = None) =>
            /\ pc[i] = "ready"
            /\ client[i] = "None"
            /\ notices[i] = 1

\* C2: the constructor returns a client straight from set_client's validity check
\* only if the loaded token passed it, otherwise only through the refresh; and
\* the token of the client it returns reports valid as it returns.
C2_ReturnedClientTokenValid ==
    \A i \in Inst :
        (/\ last.by = i
         /\ last.op \in {"set_client", "refresh_access_token"}
         /\ pc[i] = "ready"
         /\ client[i] = "ApiClient") =>
            /\ is_access_token_valid(oauth2_token[i], now)
            /\ last.op = "set_client" => loaded[i].expires_at > now

C2_Witness ==
    \E i \in Inst :
        /\ last.by = i
        /\ last.op = "refresh_access_token"
        /\ pc[i] = "ready"
        /\ client[i] = "ApiClient"
        /\ loaded[i].expires_at = 0
        /\ oauth2_token[i].expires_at > now

\* C3: when the constructor found a token whose expires_at is in the past, then
\* as it returns the store holds a token record with another access_token.
C3_RefreshedTokenPersisted ==
    \A i \in Inst :
        (/\ last.by = i
         /\ pc[i] = "ready"
         /\ \/ last.op = "refresh_access_token"
            \/ last.op = "set_client" /\ Truthy(loaded[i]) /\ loaded[i].expires_at <= now) =>
            \E d \in xero_token :
                /\ d._id = "token"
                /\ Truthy(d.body)
                /\ d.body.access_token # loaded[i].access_token

C3_Witness ==
    \E i \in Inst :
        /\ last.by = i
        /\ last.op = "refresh_access_token"
        /\ pc[i] = "ready"
        /\ loaded[i] = Token(0, 0, 0)
        /\ xero_token = {Doc("token", last.token)}
        /\ last.token.access_token # 0

\* C4: after the saver has run with a non-empty token the collection holds that
\* token under _id 'token' and nothing else; after it has run with an empty or
\* null token the collection holds no record; and there is never more than one
\* record under _id 'token'.
C4_SaverUpsertsOrDeletes ==
    /\ Cardinality(Matching(xero_token, "token")) <= 1
    /\ last.op \in {"store_oauth2_token", "refresh_access_token"} =>
        \/ Truthy(last.token) /\ xero_token = {Doc("token", last.token)}
        \/ ~Truthy(last.token) /\ xero_token = {}

C4_Witness ==
    /\ last.op = "store_oauth2_token"
    /\ last.token = None
    /\ xero_token = {}
    /\ \E i \in Inst : Truthy(loaded[i])

\* C5: every invocation of the token getter returns the body (the record without
\* its _id) of the record the collection holds under 'token' at that moment, or
\* None when there is none: never the token the client holds in memory.
C5_GetterReadsStore ==
    last.op = "get_oauth2_token" =>
        /\ xero_token = {} => last.token = None
        /\ \A d \in xero_token : d._id = "token" => last.token = d.body
        /\ "_id" \notin DOMAIN last.token

C5_Witness ==
    /\ last.op = "get_oauth2_token"
    /\ Truthy(last.token)
    /\ Truthy(oauth2_token[last.by])
    /\ last.token # oauth2_token[last.by]
    /\ token_getter[last.by] = "get_oauth2_token"

----------------------------------------------------------------------------
(* Properties of the resource adapter, under ResourceSpec *)

\* The identifier of a read or delete by id is not one of the vendor's, and the
\* vendor's answer to the get by it is the miss (no fault of another kind).
MissById ==
    /\ ret.sel.id # 0
    /\ ret.before[ret.sel.id] = Absent
    /\ ret.env.faults[1] = "ok"

\* C7: a read by an identifier that matches no entity returns an absent result
\* (None, or nothing) and does not raise, whether the vendor answers the miss
\* with an empty collection or with a not-found error; for every resource type.
C7_ReadMissReturnsAbsent ==
    (ret.op = "read" /\ MissById) =>
        /\ ret.outcome = "returned"
        /\ ret.shape # "entity"
        /\ ret.items = <<>>

\* The transition table of the soft delete, as the claim states it.
SoftDeleteTable(k, status) ==
    CASE k = "invoice" /\ status = "DRAFT" -> "DELETED"
      [] k = "invoice" /\ status = "AUTHORISED" -> "VOIDED"
      [] k = "manual_journal" /\ status = "DRAFT" -> "DELETED"
      [] k = "manual_journal" /\ status = "POSTED" -> "VOIDED"
      [] OTHER -> status

\* The delete reached its update call, and the vendor took the batch.
SoftDeleteUpdated ==
    /\ ret.op = "delete"
    /\ kind \in {"invoice", "manual_journal"}
    /\ ret.outcome = "returned"
    /\ ret.calls # <<>>
    /\ ret.calls[Len(ret.calls)].api = "update_or_create"
    /\ ret.errors = 0

\* C8: the batch a delete of invoices or manual journals hands to update holds
\* each entity with the status the table gives for the status it had: DRAFT ->
\* DELETED, AUTHORISED -> VOIDED (invoices), POSTED -> VOIDED (manual journals),
\* any other status unchanged.
C8_SoftDeleteTransition ==
    SoftDeleteUpdated =>
        /\ ret.items # <<>>
        /\ \A n \in 1..Len(ret.items) :
            /\ ret.items[n].id \in Present(ret.before)
            /\ ret.items[n].status = SoftDeleteTable(kind, ret.before[ret.items[n].id].status)
            /\ db[ret.items[n].id].status = ret.items[n].status

C8_Witness ==
    /\ SoftDeleteUpdated
    /\ kind = "invoice"
    /\ Len(ret.items) = 2
    /\ ret.before[ret.items[1].id].status = "POSTED"
    /\ ret.items[1].status = "POSTED"
    /\ ret.before[ret.items[2].id].status = "AUTHORISED"
    /\ ret.items[2].status = "VOIDED"

\* A delete by filter (no id, no list) whose read went through and matched
\* nothing.
DeleteByFilterNoMatch ==
    /\ ret.op = "delete"
    /\ ret.sel.id = 0
    /\ ~ret.sel.list_given
    /\ MatchingIds(ret.before, ret.sel.where) = {}
    /\ ret.env.faults[1] = "ok"

\* C9: a delete by filter whose read matches no entity returns an empty list
\* and makes no vendor call but that read: no update, no delete; for invoices,
\* manual journals, payments and items.
C9_DeleteByFilterNoMatchIsEmpty ==
    DeleteByFilterNoMatch =>
        /\ ret.outcome = "returned"
        /\ ret.shape = "list"
        /\ ret.items = <<>>
        /\ ret.calls = <<VendorCall("list", 0)>>
        /\ db = ret.before

C9_Witness ==
    /\ DeleteByFilterNoMatch
    /\ kind = "invoice"
    /\ ret.sel.where = "DRAFT"
    /\ Present(ret.before) = Ids
    /\ ret.outcome = "returned"

\* C10: a delete of an invoice or manual journal by an identifier that matches
\* no entity returns an empty list: it does not raise and submits no update.
C10_DeleteByIdNoMatchIsEmpty ==
    (ret.op = "delete" /\ kind \in {"invoice", "manual_journal"} /\ MissById) =>
        /\ ret.outcome = "returned"
        /\ ret.items = <<>>
        /\ \A n \in 1..Len(ret.calls) : ret.calls[n].api # "update_or_create"

\* A delete by the identifier of an invoice the vendor holds as DRAFT, with
\* every vendor call going through.
DeleteDraftInvoiceById ==
    /\ ret.op = "delete"
    /\ kind = "invoice"
    /\ ret.sel.id # 0
    /\ ret.before[ret.sel.id].status = "DRAFT"
    /\ \A k \in DOMAIN ret.env.faults : ret.env.faults[k] = "ok"

\* C11: deleting by id an invoice that exists with status DRAFT returns one
\* entity: the identifier and the reference are the target's, the status is
\* DELETED.
C11_DeleteDraftByIdReturnsDeleted ==
    DeleteDraftInvoiceById =>
        /\ ret.outcome = "returned"
        /\ ret.items = <<Entity(ret.sel.id, "DELETED", ret.before[ret.sel.id].reference)>>

C11_Witness ==
    /\ DeleteDraftInvoiceById
    /\ ret.before[ret.sel.id].reference = "changed"
    /\ Len(ret.items) = 1
    /\ ret.items[1].reference = "changed"
    /\ ret.items[1].status = "DELETED"
    /\ db[ret.sel.id] = Fields("DELETED", "changed")

\* A vendor call the adapter call made was rejected as a bad request.
BadRequestMade ==
    \E k \in 1..Len(ret.calls) :
        k \in DOMAIN ret.env.faults /\ ret.env.faults[k] = "bad_request"

\* C12: whatever adapter call it is (create, read, update or delete of any
\* resource, the reads of organisations and repeating invoices), when a vendor
\* call it makes is rejected as a bad request the adapter call does not raise:
\* it logs the error and returns an empty list or None.
C12_BadRequestBecomesEmptyResult ==
    BadRequestMade =>
        /\ ret.outcome = "returned"
        /\ ret.shape \in {"list", "None"}
        /\ ret.items = <<>>
        /\ ret.errors >= 1

\* A vendor call the adapter call made failed with an error that is neither a
\* bad request nor a not-found.
OtherErrorMade ==
    \E k \in 1..Len(ret.calls) :
        k \in DOMAIN ret.env.faults /\ ret.env.faults[k] = "error"

\* C13: when a vendor call of an adapter call fails with an error that is
\* neither a bad request nor a not-found, the adapter call raises that very
\* exception: nothing is logged or returned in its place, and the failed vendor
\* call is the last one made.
C13_OtherErrorPropagates ==
    OtherErrorMade =>
        /\ ret.outcome = "raised"
        /\ ret.exception = VendorException("error")
        /\ ret.errors = 0
        /\ ret.env.faults[Len(ret.calls)] = "error"

C13_Witness ==
    /\ OtherErrorMade
    /\ ret.op = "delete"
    /\ kind = "payment"
    /\ Len(ret.calls) = 2
    /\ ret.calls[1].api = "list"
    /\ ret.calls[2].api = "delete_payment"
    /\ ret.outcome = "raised"
    /\ db = ret.before

\* The get of a read was answered by the vendor with a not-found error.
NotFoundOnRead ==
    /\ ret.op = "read"
    /\ MissById
    /\ ret.env.miss = "not_found"
    /\ ret.calls = <<VendorCall("get", ret.sel.id)>>

\* C14: when the vendor signals not-found during a read, the read completes
\* with an empty result and writes no error-level log entry for it.
C14_NotFoundReadIsQuietlyEmpty ==
    NotFoundOnRead =>
        /\ ret.outcome = "returned"
        /\ ret.items = <<>>
        /\ ret.errors = 0

\* The entity a create has just returned, given another reference by the caller.
Rereferenced(e) ==
    [e EXCEPT !.reference = IF e.reference = "changed" THEN "test" ELSE "changed"]

\* C15: for invoices, items and manual journals, when a create has returned an
\* entity and the caller passes it to update with another reference, update
\* returns one entity with the identifier create assigned and the new
\* reference, and the vendor holds as many entities as before the update.
C15_UpdateKeepsCreatedIdentifier ==
    [][(/\ ret.op = "create"
        /\ Len(ret.items) = 1
        /\ ret'.op = "update"
        /\ ret'.sel.list = <<Rereferenced(ret.items[1])>>
        /\ ret'.env.faults[1] = "ok") =>
            /\ ret'.outcome = "returned"
            /\ ret'.items = <<Rereferenced(ret.items[1])>>
            /\ ret'.items[1].id = ret.items[1].id
            /\ Present(db') = Present(db)
            /\ db'[ret.items[1].id].reference = ret'.items[1].reference]_vars

C15_Witness ==
    /\ ret.op = "update"
    /\ kind = "manual_journal"
    /\ ret.outcome = "returned"
    /\ Len(ret.items) = 1
    /\ ret.items[1].id \in Present(ret.before)
    /\ ret.before[ret.items[1].id].reference = "test"
    /\ ret.items[1].reference = "changed"
    /\ Present(db) = Present(ret.before)
    /\ Cardinality(Present(db)) = 1

\* C16: self.tenant_id, once the constructor has set it, is changed by no step,
\* whatever the environment variable has become since; and every vendor call of
\* an adapter call is made with the tenant identifier of the adapter object.
C16_TenantIdConstant ==
    [][/\ \A i \in Inst : tenant_id[i] # "unset" => tenant_id'[i] = tenant_id[i]
       /\ \A k \in 1..Len(ret'.calls) : ret'.calls[k].tenant = tenant_id[Adapter]]_vars

C16_Witness ==
    /\ XERO_TENANT_ID # tenant_id[Adapter]
    /\ Len(ret.calls) = 2
    /\ ret.calls[1].tenant = tenant_id[Adapter]
    /\ ret.calls[2].tenant = tenant_id[Adapter]
    /\ ret.calls[2].api = "update_or_create"

----------------------------------------------------------------------------
(* Two adapter objects on one store, under TokenSpec *)

\* The step just taken was a save of a token by adapter object i.
SavedBy(i) ==
    /\ last.by = i
    /\ last.op \in {"store_oauth2_token", "refresh_access_token"}
    /\ Truthy(last.token)

\* C17: whenever an adapter object has saved a token it refreshed, whatever the
\* other object has minted or saved before, the store holds one record, and it
\* is in full the token just saved: its access token, refresh token and
\* expiry are those of the later save, not of the other object's token.
C17_LastWriterWins ==
    \A i \in Inst :
        SavedBy(i) =>
            /\ Cardinality(xero_token) = 1
            /\ \A d \in xero_token :
                /\ d.body = oauth2_token[i]
                /\ \A j \in Inst \ {i} :
                      oauth2_token[j] # oauth2_token[i] => d.body # oauth2_token[j]

\* A minted its token first and saved it last: B's mint and save fell between.
C17_Witness ==
    /\ SavedBy("A")
    /\ pc["B"] = "ready"
    /\ oauth2_token["A"].access_token = 1
    /\ oauth2_token["B"].access_token = 2
    /\ xero_token = {Doc("token", oauth2_token["A"])}

----------------------------------------------------------------------------
(* Hard deletes, under ResourceSpec *)

\* The identifiers a delete is aimed at, in order: the id, or those of the
\* list, or those of the entities the filter matches.
Targets ==
    IF ret.sel.id # 0 THEN <<ret.sel.id>>
    ELSE IF ret.sel.list # <<>> THEN [n \in 1..Len(ret.sel.list) |-> ret.sel.list[n].id]
    ELSE SortedIds(MatchingIds(ret.before, ret.sel.where))

\* The vendor calls of a delete after the list call of a delete by filter.
DeleteCalls == SelectSeq(ret.calls, LAMBDA c : c.api # "list")

\* Every vendor call of the delete went through and every target was there.
DeleteWentThrough ==
    /\ ret.outcome = "returned"
    /\ ret.errors = 0
    /\ \A k \in 1..Len(ret.calls) :
            k \in DOMAIN ret.env.faults => ret.env.faults[k] = "ok"
    /\ \A n \in 1..Len(Targets) : Targets[n] \in Present(ret.before)

\* C18: delete_payments makes no vendor call but delete_payment (after the one
\* list call of a delete by filter), each with a request of status DELETED, one
\* per payment and in the order of the list; it assigns to no payment of the
\* caller; and when all goes through it returns the deleted payments, one per
\* payment and in the same order.
C18_PaymentsDeletedByDeleteCall ==
    (ret.op = "delete" /\ kind = "payment") =>
        /\ \A k \in 1..Len(ret.calls) :
              ret.calls[k].api = "list" => (k = 1 /\ ret.sel.id = 0 /\ ret.sel.list = <<>>)
        /\ Len(DeleteCalls) <= Len(Targets)
        /\ \A n \in 1..Len(DeleteCalls) :
            /\ DeleteCalls[n].api = "delete_payment"
            /\ DeleteCalls[n].request = "DELETED"
            /\ DeleteCalls[n].id = Targets[n]
        /\ ret.marked = <<>>
        /\ DeleteWentThrough =>
            /\ Len(DeleteCalls) = Len(Targets)
            /\ ret.items = [n \in 1..Len(Targets) |->
                    Entity(Targets[n], "DELETED", ret.before[Targets[n]].reference)]

C18_Witness ==
    /\ ret.op = "delete"
    /\ kind = "payment"
    /\ DeleteWentThrough
    /\ Targets = <<2, 1>>
    /\ Len(ret.sel.list) = 2
    /\ Len(ret.items) = 2
    /\ ret.items[1].id = 2
    /\ ret.items[2].id = 1
    /\ db[1].status = "DELETED"
    /\ db[2].status = "DELETED"

\* C19: delete_items makes no vendor call but delete_item (after the one list
\* call of a delete by filter), one per item, for the id, the list and the
\* filter alike; it never calls update, assigns to no item of the caller, and
\* leaves every item at the vendor as it was or removed, never with another
\* status.
C19_ItemsDeletedByDeleteCall ==
    (ret.op = "delete" /\ kind = "item") =>
        /\ \A k \in 1..Len(ret.calls) :
              ret.calls[k].api = "list" => (k = 1 /\ ret.sel.id = 0 /\ ret.sel.list = <<>>)
        /\ Len(DeleteCalls) <= Len(Targets)
        /\ \A n \in 1..Len(DeleteCalls) :
            /\ DeleteCalls[n].api = "delete_item"
            /\ DeleteCalls[n].id = Targets[n]
        /\ ret.marked = <<>>
        /\ \A id \in Ids : db[id] \in {ret.before[id], Absent}
        /\ DeleteWentThrough =>
            /\ Len(DeleteCalls) = Len(Targets)
            /\ \A n \in 1..Len(Targets) : db[Targets[n]] = Absent

C19_Witness ==
    /\ ret.op = "delete"
    /\ kind = "item"
    /\ DeleteWentThrough
    /\ ret.sel.id = 0
    /\ ret.sel.list = <<>>
    /\ Len(ret.calls) = 3
    /\ ret.calls[1].api = "list"
    /\ ret.calls[2] = VendorCall("delete_item", 1)
    /\ ret.calls[3] = VendorCall("delete_item", 2)
    /\ Present(db) = {}

----------------------------------------------------------------------------
(* No retries, under ResourceSpec *)

\* The k-th vendor call of the adapter call failed: with a bad request or
\* another error, or with a not-found for an identifier the vendor does not know.
FailedAt(k) ==
    \/ k \in DOMAIN ret.env.faults /\ ret.env.faults[k] # "ok"
    \/ /\ ret.env.miss = "not_found"
       /\ ret.calls[k].id # 0
       /\ ret.before[ret.calls[k].id] = Absent

\* C20: a vendor call that fails is the last vendor call of the adapter call:
\* it is not made again, and the caller gets the failure at once, as the
\* exception or as the logged empty result.
C20_NoRetryAfterFailure ==
    \A k \in 1..Len(ret.calls) :
        FailedAt(k) =>
            /\ k = Len(ret.calls)
            /\ \A j \in 1..Len(ret.calls) :
                  (ret.calls[j].api = ret.calls[k].api /\ ret.calls[j].id = ret.calls[k].id)
                      => j = k
            /\ \/ ret.outcome = "raised"
               \/ ret.outcome = "returned" /\ ret.items = <<>> /\ ret.errors = 1

C20_Witness ==
    /\ ret.op = "delete"
    /\ kind = "invoice"
    /\ Len(ret.calls) = 2
    /\ ret.env.faults[2] = "bad_request"
    /\ ret.calls[2].api = "update_or_create"
    /\ ret.outcome = "returned"
    /\ ret.items = <<>>
    /\ ret.errors = 1
    /\ db = ret.before

----------------------------------------------------------------------------
(* The selectors of the deletes, under ResourceSpec *)

\* A delete called with an explicit empty entity list, no id and no filter,
\* with no vendor call failing.
DeleteByEmptyList ==
    /\ ret.op = "delete"
    /\ ret.sel.id = 0
    /\ ret.sel.list_given
    /\ ret.sel.list = <<>>
    /\ ret.sel.where = "all"
    /\ \A k \in DOMAIN ret.env.faults : ret.env.faults[k] = "ok"

\* C21: a delete called with an explicit empty entity list, no id and no filter
\* changes no entity at the vendor, makes no update call and no delete call,
\* and returns an empty list.
C21_DeleteEmptyListChangesNothing ==
    DeleteByEmptyList =>
        /\ db = ret.before
        /\ \A k \in 1..Len(ret.calls) :
              ret.calls[k].api \notin {"update_or_create", "delete_payment", "delete_item"}
        /\ ret.outcome = "returned"
        /\ ret.items = <<>>

\* The payments this call has deleted at the vendor.
DeletedAtVendor ==
    {id \in Ids : db[id].status = "DELETED" /\ ret.before[id].status # "DELETED"}

\* C22: a delete_payments by list or by filter returns every payment it has
\* deleted at the vendor, also when a later delete_payment call of the same
\* call is rejected as a bad request.
C22_DeletedPaymentsAreReported ==
    (ret.op = "delete" /\ kind = "payment" /\ ret.sel.id = 0 /\ ret.outcome = "returned") =>
        \A id \in DeletedAtVendor :
            \E n \in 1..Len(ret.items) : ret.items[n].id = id

\* A soft delete by an explicit list whose update the vendor rejected as a bad
\* request: the result is the empty list.
SoftDeleteListRejected ==
    /\ ret.op = "delete"
    /\ kind \in {"invoice", "manual_journal"}
    /\ ret.sel.id = 0
    /\ ret.sel.list # <<>>
    /\ ret.env.faults[1] = "bad_request"
    /\ ret.outcome = "returned"
    /\ ret.items = <<>>

\* C23: when a delete of invoices or manual journals by an explicit list has
\* its update rejected as a bad request, the caller's entities have the status
\* they had before the call.
C23_RejectedDeleteLeavesCallerObjects ==
    SoftDeleteListRejected =>
        \A n \in 1..Len(ret.marked) : ret.marked[n].status = ret.sel.list[n].status

\* A delete called with more than one selector.
SeveralGiven ==
    /\ ret.op = "delete"
    /\ ret.sel.list # <<>>
    /\ ret.sel.where # "all"

\* C24: a delete given an id ignores the list and the filter given with it, and
\* a delete given a list and no id ignores the filter: no entity but the one of
\* the id (the ones of the list) is changed at the vendor, named in a vendor
\* call or returned, the filter is not read by, and with an id the caller's
\* listed entities are not assigned to.
C24_SelectorPrecedence ==
    SeveralGiven =>
        LET aimed == IF ret.sel.id # 0 THEN {ret.sel.id}
                     ELSE {ret.sel.list[n].id : n \in 1..Len(ret.sel.list)}
        IN
        /\ \A id \in Ids \ aimed : db[id] = ret.before[id]
        /\ \A k \in 1..Len(ret.calls) :
            /\ ret.calls[k].api # "list"
            /\ ret.calls[k].id \in aimed \cup {0}
        /\ \A n \in 1..Len(ret.items) : ret.items[n].id \in aimed
        /\ ret.sel.id # 0 => ret.marked = <<>>
        /\ (ret.outcome = "returned" /\ kind # "item") =>
                {ret.items[n].id : n \in 1..Len(ret.items)} = aimed

C24_Witness ==
    /\ SeveralGiven
    /\ kind = "invoice"
    /\ ret.sel.id = 1
    /\ ret.sel.list[1].id = 2
    /\ ret.before[1].status = "DRAFT"
    /\ ret.before[2].status = "DRAFT"
    /\ db[1].status = "DELETED"
    /\ db[2] = ret.before[2]
    /\ ret.items = <<Entity(1, "DELETED", ret.before[1].reference)>>

----------------------------------------------------------------------------
(* The constructor, under TokenSpec *)

\* Instance i loads a stored token that can be used as a token (set_client, line 72
\* on, past line 73).
LoadsToken(i) ==
    /\ pc[i] = "new"
    /\ pc'[i] # "new"
    /\ Truthy(get_token(xero_token))

\* The construction of instance i asks the identity server for a new token.
Refreshes(i) ==
    /\ pc[i] \in {"new", "refreshing"}
    /\ pc'[i] # pc[i]
    /\ issued' # issued

\* C25: set_client goes to refresh_access_token exactly when the validity check
\* of the token it loaded fails.  With a valid stored token the construction
\* completes in set_client's step with no token issued and the stored
\* access_token the same as before; with an invalid one it is left at the
\* refresh; a construction refreshes only from there, holding a token that is
\* not valid.
C25_RefreshIffLoadedTokenInvalid ==
    [][\A i \in Inst :
        /\ LoadsToken(i) =>
            IF is_access_token_valid(get_token(xero_token), now)
            THEN /\ pc'[i] = "ready"
                 /\ issued' = issued
                 /\ Truthy(get_token(xero_token'))
                 /\ get_token(xero_token').access_token = get_token(xero_token).access_token
            ELSE pc'[i] = "refreshing"
        /\ Refreshes(i) =>
            /\ pc[i] = "refreshing"
            /\ ~is_access_token_valid(loaded[i], now)
        /\ (pc'[i] = "refreshing" /\ pc[i] # "refreshing") =>
            /\ pc[i] = "new"
            /\ ~is_access_token_valid(get_token(xero_token), now)
      ]_vars

\* An instance has just been constructed on a valid stored token: no token was
\* issued, and the store holds the access_token it loaded.
C25_Witness ==
    /\ last.op = "set_client"
    /\ pc[last.by] = "ready"
    /\ is_access_token_valid(loaded[last.by], now)
    /\ issued = 0
    /\ get_token(xero_token).access_token = loaded[last.by].access_token

\* The adapters whose construction has completed.
Completed == {i \in Inst : pc[i] \in {"ready", "saving"}}

\* Instance i is under construction: in set_client, or at its refresh.
Constructing(i) == pc[i] \in {"new", "refreshing"}

\* C26: XeroInterface.instances holds the adapters whose construction has
\* completed, each once, so its length is their number; a construction that
\* completes appends its adapter, a construction that raises leaves the list as
\* it is, and every other step leaves it as it is.
C26_InstancesCountsCompletedConstructions ==
    /\ [](/\ Len(instances) = Cardinality(Completed)
          /\ {instances[n] : n \in 1..Len(instances)} = Completed)
    /\ [][/\ \A i \in Inst :
              /\ (Constructing(i) /\ pc'[i] = "ready") => instances' = Append(instances, i)
              /\ (Constructing(i) /\ pc'[i] = "raised") => instances' = instances
          /\ \/ instances' = instances
             \/ \E i \in Inst : /\ Constructing(i)
                                /\ pc'[i] = "ready"
                                /\ instances' = Append(instances, i)
        ]_vars

\* One construction has raised in client set-up, the other has completed since,
\* and the completed adapter has stored a token after that.
C26_Witness ==
    /\ pc["A"] = "raised"
    /\ raised["A"] \in {"TypeError", "KeyError"} \cup RefreshErrors
    /\ pc["B"] = "ready"
    /\ instances = <<"B">>
    /\ last.op = "store_oauth2_token"
    /\ last.by = "B"

====
